---- MODULE Spec2Model ----
(***************************************************************************)
(* Model of scripts/package-cache-automation.js: the manifest resolver,    *)
(* the tag sanitizer, the existence check, the downloader with its         *)
(* redirect loop, the release publisher (cachePackage) and the batch       *)
(* runner (main), run repeatedly against one release backend and one       *)
(* scratch directory.                                                      *)
(*                                                                         *)
(* JavaScript strings are sequences of one-character strings, so that the  *)
(* regular-expression replacements of the source act on characters.        *)
(***************************************************************************)
EXTENDS Integers, Sequences, FiniteSets, TLC

\* ------------------------------------------------------------------------
\* Bounds of the model
\* ------------------------------------------------------------------------

\* number of successive invocations of the script
MaxRuns == 2

\* longest string over SanAlphabet given to sanitizeTagName
MaxLen == 3

\* most entries of one dependency group of a manifest given to the resolver
MaxDeps == 2

\* cap on the https.get requests of one download (only a changed redirect
\* check can reach it)
MaxRequests == 8

\* ------------------------------------------------------------------------
\* Strings
\* ------------------------------------------------------------------------

Lower == {"a","b","c","d","e","f","g","h","i","j","k","l","m",
          "n","o","p","q","r","s","t","u","v","w","x","y","z"}

Upper == {"A","B","C","D","E","F","G","H","I","J","K","L","M",
          "N","O","P","Q","R","S","T","U","V","W","X","Y","Z"}

Digit == {"0","1","2","3","4","5","6","7","8","9"}

\* the character class [a-zA-Z0-9._-] of sanitizeTagName
TagChar == Lower \cup Upper \cup Digit \cup {".", "_", "-"}

\* String.prototype.substring(0, n)
Substring0(str, n) == SubSeq(str, 1, IF Len(str) < n THEN Len(str) ELSE n)

\* .replace(/[^a-zA-Z0-9._-]/g, '-')
ReplaceInvalid(str) == [i \in 1..Len(str) |-> IF str[i] \in TagChar THEN str[i] ELSE "-"]

\* .replace(/^[.-]/, '')
StripLeading(str) == IF Len(str) > 0 /\ str[1] \in {".", "-"} THEN Tail(str) ELSE str

\* .replace(/[.-]$/, '')
StripTrailing(str) ==
  IF Len(str) > 0 /\ str[Len(str)] \in {".", "-"} THEN SubSeq(str, 1, Len(str) - 1) ELSE str

\* .replace(/-+/g, '-'): every run of hyphens becomes one hyphen; the two
\* halves are collapsed and a run that spans the cut is joined
RECURSIVE CollapseHyphens(_)
CollapseHyphens(str) ==
  IF Len(str) < 2 THEN str
  ELSE LET half == Len(str) \div 2
           left == CollapseHyphens(SubSeq(str, 1, half))
           right == CollapseHyphens(SubSeq(str, half + 1, Len(str)))
       IN IF left[Len(left)] = "-" /\ right[1] = "-"
          THEN left \o Tail(right)
          ELSE left \o right

TagMaxLen == 100

sanitizeTagName(name) ==
  Substring0(CollapseHyphens(StripTrailing(StripLeading(ReplaceInvalid(name)))), TagMaxLen)

\* the template literal `${packageName}-${version}`
RawTag(packageName, version) == packageName \o <<"-">> \o version

\* ------------------------------------------------------------------------
\* Artifact registry
\* ------------------------------------------------------------------------

BinaryPlatforms ==
  << [os |-> <<"L","i","n","u","x">>, platform |-> <<"l","i","n","u","x">>, arch |-> <<"x","6","4">>],
     [os |-> <<"m","a","c","O","S">>, platform |-> <<"d","a","r","w","i","n">>, arch |-> <<"x","6","4">>],
     [os |-> <<"W","i","n","d","o","w","s">>, platform |-> <<"w","i","n","3","2">>, arch |-> <<"x","6","4">>] >>

\* key, display name and file name prefix of every entry of the table
BinaryTable ==
  << [key |-> <<"c","y","p","r","e","s","s">>,
      name |-> <<"C","y","p","r","e","s","s">>,
      prefix |-> <<"c","y","p","r","e","s","s","-">>],
     [key |-> <<"e","l","e","c","t","r","o","n">>,
      name |-> <<"E","l","e","c","t","r","o","n">>,
      prefix |-> <<"e","l","e","c","t","r","o","n","-","v">>],
     [key |-> <<"p","u","p","p","e","t","e","e","r">>,
      name |-> <<"P","u","p","p","e","t","e","e","r">>,
      prefix |-> <<"p","u","p","p","e","t","e","e","r","-","c","h","r","o","m","e","-">>],
     [key |-> <<"p","l","a","y","w","r","i","g","h","t">>,
      name |-> <<"P","l","a","y","w","r","i","g","h","t">>,
      prefix |-> <<"p","l","a","y","w","r","i","g","h","t","-">>],
     [key |-> <<"p","l","a","y","w","r","i","g","h","t","-","c","o","r","e">>,
      name |-> <<"P","l","a","y","w","r","i","g","h","t"," ","C","o","r","e">>,
      prefix |-> <<"p","l","a","y","w","r","i","g","h","t","-","c","o","r","e","-">>],
     [key |-> <<"p","l","a","y","w","r","i","g","h","t","-","c","h","r","o","m","i","u","m">>,
      name |-> <<"P","l","a","y","w","r","i","g","h","t"," ","C","h","r","o","m","i","u","m">>,
      prefix |-> <<"p","l","a","y","w","r","i","g","h","t","-","c","h","r","o","m","i","u","m","-">>],
     [key |-> <<"p","l","a","y","w","r","i","g","h","t","-","f","i","r","e","f","o","x">>,
      name |-> <<"P","l","a","y","w","r","i","g","h","t"," ","F","i","r","e","f","o","x">>,
      prefix |-> <<"p","l","a","y","w","r","i","g","h","t","-","f","i","r","e","f","o","x","-">>],
     [key |-> <<"p","l","a","y","w","r","i","g","h","t","-","w","e","b","k","i","t">>,
      name |-> <<"P","l","a","y","w","r","i","g","h","t"," ","W","e","b","K","i","t">>,
      prefix |-> <<"p","l","a","y","w","r","i","g","h","t","-","w","e","b","k","i","t","-">>] >>

BinaryEntry(name) == CHOOSE i \in 1..Len(BinaryTable) : BinaryTable[i].key = name

\* name is a key of the table itself
IsTableKey(name) == \E i \in 1..Len(BinaryTable) : BinaryTable[i].key = name

\* BINARY_PACKAGES is an object literal: a lookup by a name that is not a key
\* of its own finds the functions it inherits from Object.prototype
ObjectPrototypeKeys ==
  { <<"c","o","n","s","t","r","u","c","t","o","r">>,
    <<"h","a","s","O","w","n","P","r","o","p","e","r","t","y">>,
    <<"i","s","P","r","o","t","o","t","y","p","e","O","f">>,
    <<"p","r","o","p","e","r","t","y","I","s","E","n","u","m","e","r","a","b","l","e">>,
    <<"t","o","L","o","c","a","l","e","S","t","r","i","n","g">>,
    <<"t","o","S","t","r","i","n","g">>,
    <<"v","a","l","u","e","O","f">> }

Constructor == <<"c","o","n","s","t","r","u","c","t","o","r">>

\* the name property of an inherited function
InheritedName(key) == IF key = Constructor THEN <<"O","b","j","e","c","t">> ELSE key

\* BINARY_PACKAGES[name] is truthy
IsBinaryPackage(name) == IsTableKey(name) \/ name \in ObjectPrototypeKeys

\* BINARY_PACKAGES[name], without its two builder functions; an inherited
\* function has a name and no platforms (<<>> stands for undefined)
BINARY_PACKAGES(name) ==
  IF IsTableKey(name)
  THEN [name |-> BinaryTable[BinaryEntry(name)].name, platforms |-> BinaryPlatforms]
  ELSE [name |-> InheritedName(name), platforms |-> <<>>]

\* the descriptor synthesized for a package that is not in the table
NpmConfig(name) ==
  [name |-> name,
   platforms |-> << [os |-> <<"A","l","l"," ","P","l","a","t","f","o","r","m","s">>, platform |-> <<"n","p","m">>, arch |-> <<"a","l","l">>] >>]

\* config.getFilename(version, platform, arch)
getFilename(item, version, platform, arch) ==
  IF item.type = "binary"
  THEN BinaryTable[BinaryEntry(item.name)].prefix \o version \o <<"-">> \o platform
         \o <<"-">> \o arch \o <<".","z","i","p">>
  ELSE item.name \o <<"-">> \o version \o <<".","t","g","z">>

\* ------------------------------------------------------------------------
\* Manifest resolver
\* ------------------------------------------------------------------------

\* version.replace(/^[\^~]/, '')
StripVersionPrefix(version) ==
  IF Len(version) > 0 /\ version[1] \in {"^", "~"} THEN Tail(version) ELSE version

HasName(group, name) == \E i \in 1..Len(group) : group[i].name = name

VersionOf(group, name) == group[CHOOSE i \in 1..Len(group) : group[i].name = name].version

\* { ...packageJson.dependencies, ...packageJson.devDependencies }: a key of
\* both groups keeps the place it has in dependencies and takes the value
\* of devDependencies
SpreadMerge(dependencies, devDependencies) ==
  LET NewKey(e) == ~HasName(dependencies, e.name)
      overlaid == [i \in 1..Len(dependencies) |->
                     IF HasName(devDependencies, dependencies[i].name)
                     THEN [name |-> dependencies[i].name,
                           version |-> VersionOf(devDependencies, dependencies[i].name)]
                     ELSE dependencies[i]]
  IN overlaid \o SelectSeq(devDependencies, NewKey)

getAllDependencies(packageJson) ==
  LET deps == SpreadMerge(packageJson.dependencies, packageJson.devDependencies)
  IN [i \in 1..Len(deps) |->
        [name |-> deps[i].name, version |-> StripVersionPrefix(deps[i].version)]]

getAllPackages(packageJson) ==
  LET allDeps == getAllDependencies(packageJson)
  IN [i \in 1..Len(allDeps) |->
        IF IsBinaryPackage(allDeps[i].name)
        THEN [name |-> allDeps[i].name, version |-> allDeps[i].version,
              config |-> BINARY_PACKAGES(allDeps[i].name), type |-> "binary"]
        ELSE [name |-> allDeps[i].name, version |-> allDeps[i].version,
              config |-> NpmConfig(allDeps[i].name), type |-> "npm"]]

\* a batch that ignores --package=
FilterIgnored(allPackages, specificPackage) == allPackages

\* specificPackage ? allPackages.filter(pkg => pkg.name === specificPackage) : allPackages
FilterPackages(allPackages, specificPackage) ==
  LET Match(pkg) == pkg.name = specificPackage
  IN IF specificPackage # <<>> THEN SelectSeq(allPackages, Match) ELSE allPackages

\* ------------------------------------------------------------------------
\* Scratch directory paths, relative to the temp directory (<<>> is temp)
\* ------------------------------------------------------------------------

SlashPositions(p) == {i \in 1..Len(p) : p[i] = "/"}

Max(S) == CHOOSE m \in S : \A n \in S : n <= m

\* path.dirname(filepath)
DirName(p) == IF SlashPositions(p) = {} THEN <<>> ELSE SubSeq(p, 1, Max(SlashPositions(p)) - 1)

\* the directories fs.mkdirSync(tempDir, { recursive: true }) makes exist
MkdirRecursive(d) == {<<>>, d} \cup {SubSeq(d, 1, i - 1) : i \in SlashPositions(d)}

Range(seq) == {seq[i] : i \in 1..Len(seq)}

\* ------------------------------------------------------------------------
\* Inputs of a run
\* ------------------------------------------------------------------------

Cypress == <<"c","y","p","r","e","s","s">>
Scoped == <<"@","t","/","n">>
Missing == <<"z","z">>

\* package.json of the source repository: a scoped registry package declared
\* in both groups with different ranges, and one package of the binary table
Manifests ==
  { [dependencies |-> << [name |-> Scoped, version |-> <<"~","2",".","0">>] >>,
     devDependencies |-> << [name |-> Cypress, version |-> <<"^","1",".","0">>],
                            [name |-> Scoped, version |-> <<"^","2",".","1">>] >>] }

\* values of --package=; <<>> stands for an absent or empty argument
PackageArgs == {<<>>, Cypress, Missing}

\* outcomes of octokit.rest.repos.getContent and of decoding its answer
FetchOutcomes == {"ok", "error", "not_file", "bad_json"}

\* statuses of getReleaseByTag other than found and not-found
ErrorStatuses == {403, 500}

\* what one https.get can produce
Responses == {"ok", "redirect", "redirect_no_location", "status", "error"}

\* ------------------------------------------------------------------------
\* State
\* ------------------------------------------------------------------------

VARIABLES
  pc,                \* position of the script
  runs,              \* invocations started so far
  deploy,            \* main: deploy
  specificPackage,   \* main: specificPackage
  allPackages,       \* main: allPackages
  packagesToProcess, \* main: packagesToProcess
  idx,               \* main: position of the for loop in packagesToProcess
  successCount,      \* main: successCount
  results,           \* the values cachePackage returned in this run
  exitCode,          \* exit code of the process, read when pc = "exited"
  summary,           \* the summary lines were printed
  newRelease,        \* cachePackage: newRelease.id
  pi,                \* cachePackage: position in config.platforms
  downloadedFiles,   \* cachePackage: downloadedFiles
  success,           \* cachePackage: the value the try block returns
  redirectCount,     \* downloadFile: redirectCount
  requests,          \* downloadFile: https.get calls of the current download
  dlError,           \* downloadFile: message of the last rejection
  cur,               \* record of what happened to the current work item
  transferFailed,    \* some item of this run failed in a download or upload
  releases,          \* backend: tag -> names of the uploaded assets
  files,             \* scratch files that exist
  dirs,              \* scratch directories that exist
  dupCreate,         \* tags for which createRelease was called on the backend
                     \* although a release had been created for them
  token,             \* main: process.env.GITHUB_TOKEN is set
  fetch,             \* getPackageJsonFromRepo: how the fetch of package.json ended
  sanStage,          \* how often sanitizeTagName has been applied to sanInput
  sanInput,          \* a string given to sanitizeTagName
  sanOnce,           \* sanitizeTagName(sanInput)
  sanTwice,          \* sanitizeTagName(sanOnce)
  resStage,          \* whether getAllPackages has been applied to resManifest
  resManifest,       \* a parsed package.json given to getAllPackages
  resPackages        \* getAllPackages(resManifest)

vars == <<pc, runs, deploy, specificPackage, allPackages, packagesToProcess, idx,
          successCount, results, exitCode, summary, newRelease, pi,
          downloadedFiles, success, redirectCount, requests, dlError, cur,
          transferFailed, releases, files, dirs, dupCreate, token, fetch,
          sanStage, sanInput, sanOnce, sanTwice, resStage, resManifest,
          resPackages>>

runVars == <<runs, deploy, specificPackage, allPackages, packagesToProcess, token, fetch>>

sanVars == <<sanStage, sanInput, sanOnce, sanTwice>>

resVars == <<resStage, resManifest, resPackages>>

EmptyManifest == [dependencies |-> <<>>, devDependencies |-> <<>>]

InitResolver ==
  /\ resStage = "input"
  /\ resManifest = EmptyManifest
  /\ resPackages = <<>>

downloadVars == <<redirectCount, requests, dlError>>

NoItem ==
  [tag |-> <<>>, checkStatus |-> 0, create |-> "none", events |-> <<>>,
   created |-> {}, fsFailed |-> FALSE, result |-> "none",
   failedAt |-> 0, eventsAtFailure |-> 0, failedUnlinks |-> {}]

DryRunRelease == <<"dry-run">>

InitProgram ==
  /\ pc = "idle"
  /\ runs = 0
  /\ deploy = FALSE
  /\ specificPackage = <<>>
  /\ allPackages = <<>>
  /\ packagesToProcess = <<>>
  /\ idx = 0
  /\ successCount = 0
  /\ results = <<>>
  /\ exitCode = 0
  /\ summary = FALSE
  /\ newRelease = <<>>
  /\ pi = 0
  /\ downloadedFiles = <<>>
  /\ success = FALSE
  /\ redirectCount = 0
  /\ requests = 0
  /\ dlError = ""
  /\ cur = NoItem
  /\ transferFailed = FALSE
  /\ releases = << >>
  /\ files = {}
  /\ dirs = {}
  /\ dupCreate = {}
  /\ token = FALSE
  /\ fetch = "none"

Init ==
  /\ InitProgram
  /\ sanStage = "input"
  /\ sanInput = <<>>
  /\ sanOnce = <<>>
  /\ sanTwice = <<>>
  /\ InitResolver

Item == packagesToProcess[idx]

Target == Item.config.platforms[pi]

Filename == getFilename(Item, Item.version, Target.platform, Target.arch)

Event(op, n) == [op |-> op, target |-> n]

\* ------------------------------------------------------------------------
\* Decisions of the code
\* ------------------------------------------------------------------------

\* a lookup by the unsanitized tag
CheckTagRaw(packageName, version) == RawTag(packageName, version)

\* checkReleaseExists: the tag it looks up
CheckTag(packageName, version) == sanitizeTagName(RawTag(packageName, version))

\* createRelease: the tag it creates
ReleaseTag(packageName, version) == sanitizeTagName(RawTag(packageName, version))

\* a check that takes every failure for not-found
checkReleaseExistsLenient(status) == IF status = 200 THEN "exists" ELSE "absent"

\* checkReleaseExists: what becomes of the status of getReleaseByTag
checkReleaseExists(status) ==
  IF status = 200 THEN "exists" ELSE IF status = 404 THEN "absent" ELSE "throw"

\* a publisher that ignores the result of the check
NeverCached(exists) == FALSE

\* cachePackage: if (exists) { ... return true }
AlreadyCached(exists) == exists

\* a createRelease that ignores the flag
AlwaysDeploys(deployFlag) == TRUE

\* createRelease: if (deploy) calls the backend
CreateDeploys(deployFlag) == deployFlag

\* uploadAsset: if (!deploy) returns before calling the backend
UploadDeploys(deployFlag) == deployFlag

maxRedirects == 5

\* a redirect check that is two hops late
TooManyRedirectsLate(count) == count >= maxRedirects + 2

\* downloadFile.download: if (redirectCount >= maxRedirects)
TooManyRedirects(count) == count >= maxRedirects

\* a loop over the platforms that skips a target
SkipTarget(i) == i + 2

\* cachePackage: for (... of config.platforms) goes to the next target
NextTarget(i) == i + 1

\* a cleanup whose failures fail the work item
CleanupEscalates(value, failed) == value /\ failed = {}

\* cachePackage: what it returns once cleanup ran with the unlinks of
\* `failed` throwing; cleanup catches them and finally returns nothing
CleanupResult(value, failed) == value

\* ------------------------------------------------------------------------
\* Ways a work item ends
\* ------------------------------------------------------------------------

\* cachePackage returned value: main counts it and the loop goes on
Return(value, item) ==
  /\ cur' = [item EXCEPT !.result = IF value THEN "true" ELSE "false"]
  /\ successCount' = IF value THEN successCount + 1 ELSE successCount
  /\ results' = Append(results, value)
  /\ idx' = idx + 1
  /\ pc' = "loop"
  /\ UNCHANGED <<exitCode, summary>>

\* an uncaught error that leaves the exit code at 0
ThrowExitsZero(item) ==
  /\ cur' = [item EXCEPT !.result = "threw"]
  /\ pc' = "exited"
  /\ exitCode' = 0
  /\ UNCHANGED <<successCount, results, idx, summary>>

\* an error left cachePackage: main rejects and main().catch exits with 1
Throw(item) ==
  /\ cur' = [item EXCEPT !.result = "threw"]
  /\ pc' = "exited"
  /\ exitCode' = 1
  /\ UNCHANGED <<successCount, results, idx, summary>>

\* a catch that starts the target again instead of giving the item up
CaughtGoesOn(item) ==
  /\ cur' = [item EXCEPT !.failedAt = pi, !.eventsAtFailure = Len(item.events)]
  /\ success' = FALSE
  /\ transferFailed' = TRUE
  /\ pc' = "download"

\* an error inside the try block: catch sets the result, finally cleans up
Caught(item) ==
  /\ cur' = [item EXCEPT !.failedAt = pi, !.eventsAtFailure = Len(item.events)]
  /\ success' = FALSE
  /\ transferFailed' = TRUE
  /\ pc' = "cleanup"

\* ------------------------------------------------------------------------
\* Actions
\* ------------------------------------------------------------------------

\* main, up to the fetch of the manifest
Main(d, f, tok) ==
  /\ pc \in {"idle", "exited"}
  /\ runs < MaxRuns
  /\ runs' = runs + 1
  /\ deploy' = d
  /\ specificPackage' = f
  /\ allPackages' = <<>>
  /\ packagesToProcess' = <<>>
  /\ idx' = 0
  /\ successCount' = 0
  /\ results' = <<>>
  /\ summary' = FALSE
  /\ newRelease' = <<>>
  /\ pi' = 0
  /\ downloadedFiles' = <<>>
  /\ success' = FALSE
  /\ redirectCount' = 0
  /\ requests' = 0
  /\ dlError' = ""
  /\ cur' = NoItem
  /\ transferFailed' = FALSE
  /\ IF tok
     THEN pc' = "fetch" /\ exitCode' = 0
     ELSE pc' = "exited" /\ exitCode' = 1
  /\ token' = tok
  /\ fetch' = "none"
  /\ UNCHANGED <<releases, files, dirs, dupCreate, sanVars, resVars>>

\* getPackageJsonFromRepo, then main up to the for loop
GetPackageJson(outcome, packageJson) ==
  /\ pc = "fetch"
  /\ fetch' = outcome
  /\ IF outcome = "ok"
     THEN LET all == getAllPackages(packageJson)
              selected == FilterPackages(all, specificPackage)
          IN /\ allPackages' = all
             /\ packagesToProcess' = selected
             /\ IF Len(selected) = 0
                THEN pc' = "exited" /\ idx' = idx
                ELSE pc' = "loop" /\ idx' = 1
             /\ exitCode' = 0
     ELSE /\ pc' = "exited"
          /\ exitCode' = 1
          /\ UNCHANGED <<allPackages, packagesToProcess, idx>>
  /\ UNCHANGED <<runs, deploy, specificPackage, token, successCount, results,
                 summary, newRelease, pi, downloadedFiles, success, downloadVars,
                 cur, transferFailed, releases, files, dirs, dupCreate, sanVars, resVars>>

\* the for loop of main enters cachePackage for the next work item
BeginItem ==
  /\ UNCHANGED <<sanVars, resVars>>
  /\ pc = "loop"
  /\ idx <= Len(packagesToProcess)
  /\ cur' = [NoItem EXCEPT !.tag = CheckTag(Item.name, Item.version), !.result = "pending"]
  /\ newRelease' = <<>>
  /\ pi' = 0
  /\ downloadedFiles' = <<>>
  /\ success' = FALSE
  /\ redirectCount' = 0
  /\ requests' = 0
  /\ dlError' = ""
  /\ pc' = "check"
  /\ UNCHANGED <<runVars, idx, successCount, results, exitCode, summary,
                 transferFailed, releases, files, dirs, dupCreate>>

\* the for loop of main is over: summary, and the process ends
Summary ==
  /\ UNCHANGED <<sanVars, resVars>>
  /\ pc = "loop"
  /\ idx > Len(packagesToProcess)
  /\ summary' = TRUE
  /\ pc' = "exited"
  /\ exitCode' = 0
  /\ UNCHANGED <<runVars, idx, successCount, results, newRelease, pi,
                 downloadedFiles, success, downloadVars, cur, transferFailed,
                 releases, files, dirs, dupCreate>>

\* cachePackage: checkReleaseExists and the branch on its result
CheckRelease(status) ==
  /\ UNCHANGED <<sanVars, resVars>>
  /\ pc = "check"
  /\ status \in {IF cur.tag \in DOMAIN releases THEN 200 ELSE 404} \cup ErrorStatuses
  /\ LET item == [cur EXCEPT !.checkStatus = status,
                             !.events = Append(@, Event("getReleaseByTag", 0))]
         outcome == checkReleaseExists(status)
     IN IF outcome = "throw"
        THEN Throw(item)
        ELSE IF AlreadyCached(outcome = "exists")
        THEN Return(TRUE, item)
        ELSE /\ cur' = item
             /\ pc' = "create"
             /\ UNCHANGED <<successCount, results, idx, exitCode, summary>>
  /\ UNCHANGED <<runVars, newRelease, pi, downloadedFiles, success, downloadVars,
                 transferFailed, releases, files, dirs, dupCreate>>

\* cachePackage: createRelease
CreateRelease(ok) ==
  /\ UNCHANGED <<sanVars, resVars>>
  /\ pc = "create"
  /\ LET tag == ReleaseTag(Item.name, Item.version)
         called == [cur EXCEPT !.events = Append(@, Event("createRelease", 0))]
     IN IF CreateDeploys(deploy)
        THEN /\ dupCreate' = IF tag \in DOMAIN releases THEN dupCreate \cup {tag} ELSE dupCreate
             /\ IF ok /\ tag \notin DOMAIN releases
                THEN /\ releases' = [t \in DOMAIN releases \cup {tag} |->
                                       IF t \in DOMAIN releases THEN releases[t] ELSE {}]
                     /\ newRelease' = tag
                     /\ cur' = [called EXCEPT !.create = "ok"]
                     /\ pc' = "download"
                     /\ pi' = 1
                     /\ UNCHANGED <<exitCode, successCount, results, idx, summary>>
                ELSE /\ Throw([called EXCEPT !.create = "failed"])
                     /\ UNCHANGED <<releases, newRelease, pi>>
        ELSE /\ ok
             /\ newRelease' = DryRunRelease
             /\ cur' = [cur EXCEPT !.create = "dry",
                                    !.events = Append(@, Event("dryRunRelease", 0))]
             /\ pc' = "download"
             /\ pi' = 1
             /\ UNCHANGED <<releases, dupCreate, exitCode, successCount, results,
                            idx, summary>>
  /\ UNCHANGED <<runVars, downloadedFiles, success, downloadVars, transferFailed,
                 files, dirs>>

\* downloadPackageBinary / downloadNpmPackage up to the first https.get of
\* downloadFile
StartDownload ==
  /\ UNCHANGED <<sanVars, resVars>>
  /\ pc = "download"
  /\ dirs' = IF DirName(Filename) \in dirs THEN dirs ELSE dirs \cup MkdirRecursive(DirName(Filename))
  /\ files' = files \cup {Filename}
  /\ redirectCount' = 0
  /\ LET item == [cur EXCEPT !.created = @ \cup {Filename},
                             !.events = Append(@, Event("download", pi))]
     IN IF TooManyRedirects(0)
        THEN /\ Caught(item)
             /\ dlError' = "Too many redirects"
             /\ requests' = 0
        ELSE /\ cur' = item
             /\ requests' = 1
             /\ dlError' = ""
             /\ pc' = "get"
             /\ UNCHANGED <<success, transferFailed>>
  /\ UNCHANGED <<runVars, idx, successCount, results, exitCode, summary, newRelease,
                 pi, downloadedFiles, releases, dupCreate>>

\* downloadFile: the callbacks of https.get, and what the callers do when
\* the promise settles
Response(r, unlinked) ==
  /\ UNCHANGED <<sanVars, resVars>>
  /\ pc = "get"
  /\ r \in Responses
  /\ CASE r = "redirect" ->
            /\ unlinked
            /\ redirectCount' = redirectCount + 1
            /\ IF TooManyRedirects(redirectCount + 1)
               THEN /\ Caught(cur)
                    /\ dlError' = "Too many redirects"
                    /\ UNCHANGED requests
               ELSE /\ requests < MaxRequests
                    /\ requests' = requests + 1
                    /\ UNCHANGED <<pc, cur, success, transferFailed, dlError>>
            /\ UNCHANGED <<files, downloadedFiles>>
       [] r = "redirect_no_location" ->
            /\ unlinked
            /\ Caught(cur)
            /\ dlError' = "Redirect without location header"
            /\ UNCHANGED <<files, downloadedFiles, redirectCount, requests>>
       [] r = "status" ->
            /\ unlinked
            /\ Caught(cur)
            /\ dlError' = "Failed to download"
            /\ UNCHANGED <<files, downloadedFiles, redirectCount, requests>>
       [] r = "error" ->
            /\ files' = IF unlinked THEN files \ {Filename} ELSE files
            /\ Caught([cur EXCEPT !.fsFailed = @ \/ ~unlinked])
            /\ dlError' = "request error"
            /\ UNCHANGED <<downloadedFiles, redirectCount, requests>>
       [] r = "ok" ->
            /\ unlinked
            /\ downloadedFiles' = Append(downloadedFiles, Filename)
            /\ cur' = [cur EXCEPT !.events = Append(@, Event("downloaded", pi))]
            /\ pc' = "upload"
            /\ UNCHANGED <<files, success, transferFailed, downloadVars>>
  /\ UNCHANGED <<runVars, idx, successCount, results, exitCode, summary, newRelease,
                 pi, releases, dirs, dupCreate>>

\* cachePackage: uploadAsset, then the next platform or the end of the try block
UploadAsset(ok) ==
  /\ UNCHANGED <<sanVars, resVars>>
  /\ pc = "upload"
  /\ LET entered == [cur EXCEPT !.events = Append(@, Event("uploadAsset", pi))]
         called == [entered EXCEPT !.events = Append(@, Event("uploadReleaseAsset", pi))]
         Continue == IF pi < Len(Item.config.platforms)
                     THEN /\ pi' = NextTarget(pi)
                          /\ pc' = "download"
                          /\ UNCHANGED success
                     ELSE /\ success' = TRUE
                          /\ pc' = "cleanup"
                          /\ UNCHANGED pi
     IN IF UploadDeploys(deploy)
        THEN IF ok /\ newRelease \in DOMAIN releases
             THEN /\ releases' = [releases EXCEPT ![newRelease] = @ \cup {Filename}]
                  /\ cur' = called
                  /\ Continue
                  /\ UNCHANGED transferFailed
             ELSE /\ Caught(called)
                  /\ UNCHANGED <<releases, pi>>
        ELSE /\ ok
             /\ cur' = entered
             /\ Continue
             /\ UNCHANGED <<releases, transferFailed>>
  /\ UNCHANGED <<runVars, idx, successCount, results, exitCode, summary, newRelease,
                 downloadedFiles, downloadVars, files, dirs, dupCreate>>

\* cachePackage: the finally block (cleanup), then the return to main
Cleanup(failed) ==
  /\ UNCHANGED <<sanVars, resVars>>
  /\ pc = "cleanup"
  /\ failed \subseteq Range(downloadedFiles)
  /\ LET left == files \ (Range(downloadedFiles) \ failed)
         item == [cur EXCEPT !.events = Append(@, Event("cleanup", 0)),
                             !.fsFailed = @ \/ failed # {},
                             !.failedUnlinks = failed]
     IN /\ files' = left
        /\ dirs' = IF left = {} /\ dirs = {<<>>} THEN {} ELSE dirs
        /\ Return(CleanupResult(success, failed), item)
  /\ UNCHANGED <<runVars, newRelease, pi, downloadedFiles, success, downloadVars,
                 transferFailed, releases, dupCreate>>

Next ==
  \/ \E d \in BOOLEAN, f \in PackageArgs, tok \in BOOLEAN : Main(d, f, tok)
  \/ \E outcome \in FetchOutcomes, packageJson \in Manifests : GetPackageJson(outcome, packageJson)
  \/ BeginItem
  \/ Summary
  \/ \E status \in {200, 404} \cup ErrorStatuses : CheckRelease(status)
  \/ \E ok \in BOOLEAN : CreateRelease(ok)
  \/ StartDownload
  \/ \E r \in Responses, unlinked \in BOOLEAN : Response(r, unlinked)
  \/ \E ok \in BOOLEAN : UploadAsset(ok)
  \/ \E failed \in SUBSET files : Cleanup(failed)

Spec == Init /\ [][Next]_vars

\* ------------------------------------------------------------------------
\* sanitizeTagName on its own, applied once and then to its own result
\* ------------------------------------------------------------------------

progVars == <<pc, runs, deploy, specificPackage, allPackages, packagesToProcess, idx,
              successCount, results, exitCode, summary, newRelease, pi,
              downloadedFiles, success, redirectCount, requests, dlError, cur,
              transferFailed, releases, files, dirs, dupCreate, token, fetch>>

\* a valid letter, a digit, the two characters the function strips, and an
\* invalid character
SanAlphabet == {"a", "1", ".", "-", "@"}

ShortStrings == UNION {[1..n -> SanAlphabet] : n \in 0..MaxLen}

\* a valid prefix that brings a string to the length limit of the function
LongPrefix == [i \in 1..(TagMaxLen - 2) |-> "a"]

SanInputs == ShortStrings \cup {LongPrefix \o s : s \in ShortStrings}

InitSan ==
  /\ InitProgram
  /\ sanStage = "input"
  /\ sanInput \in SanInputs
  /\ sanOnce = <<>>
  /\ sanTwice = <<>>
  /\ InitResolver

Sanitize ==
  /\ sanStage = "input"
  /\ sanOnce' = sanitizeTagName(sanInput)
  /\ sanStage' = "once"
  /\ UNCHANGED <<progVars, resVars, sanInput, sanTwice>>

SanitizeAgain ==
  /\ sanStage = "once"
  /\ sanTwice' = sanitizeTagName(sanOnce)
  /\ sanStage' = "twice"
  /\ UNCHANGED <<progVars, resVars, sanInput, sanOnce>>

NextSan == Sanitize \/ SanitizeAgain

SanSpec == InitSan /\ [][NextSan]_vars

\* ------------------------------------------------------------------------
\* The manifest resolver on its own
\* ------------------------------------------------------------------------

LeftPad == <<"l","p">>

\* a table key, a scoped name, a plain name and a name Object.prototype has
ResNames == {Cypress, Scoped, LeftPad, Constructor}

\* version ranges with the two prefixes the resolver strips
ResVersions == {<<"^","1",".","0">>, <<"~","2",".","0">>}

\* the entries of one group: an object has every key once
Groups ==
  UNION {{g \in [1..n -> [name : ResNames, version : ResVersions]] :
            \A i, j \in 1..n : g[i].name = g[j].name => i = j} : n \in 0..MaxDeps}

ResManifests == [dependencies : Groups, devDependencies : Groups]

InitRes ==
  /\ InitProgram
  /\ sanStage = "input"
  /\ sanInput = <<>>
  /\ sanOnce = <<>>
  /\ sanTwice = <<>>
  /\ resStage = "input"
  /\ resManifest \in ResManifests
  /\ resPackages = <<>>

Resolve ==
  /\ resStage = "input"
  /\ resPackages' = getAllPackages(resManifest)
  /\ resStage' = "done"
  /\ UNCHANGED <<progVars, sanVars, resManifest>>

NextRes == Resolve

ResSpec == InitRes /\ [][NextRes]_vars

\* ------------------------------------------------------------------------
\* Properties
\* ------------------------------------------------------------------------

Ops(item) == {item.events[i].op : i \in 1..Len(item.events)}

\* the current work item is over and cachePackage returned a value
Returned == cur.result \in {"true", "false"}

\* the work item cur describes, once cachePackage returned
DoneItem == packagesToProcess[idx - 1]

\* the asset names of all platform targets of a work item
AllFilenames(item) ==
  {getFilename(item, item.version, item.config.platforms[i].platform,
               item.config.platforms[i].arch) : i \in 1..Len(item.config.platforms)}

\* C1: over all runs, createRelease is never called on the backend for a tag
\* for which a release was already created: the tag checkReleaseExists looks
\* up is the tag createRelease used.
C1_AtMostOnceCreate == dupCreate = {}

\* a later run finds the release that an earlier run created under a tag the
\* sanitizer changed
C1_Witness ==
  /\ runs >= 2
  /\ cur.checkStatus = 200
  /\ cur.result = "true"
  /\ cur.tag \in DOMAIN releases
  /\ cur.tag # RawTag(DoneItem.name, DoneItem.version)

\* C2: when getReleaseByTag returns a release for the item's tag, cachePackage
\* returns true and the item's processing calls neither createRelease nor
\* uploadReleaseAsset, downloads nothing and runs no cleanup; backend and
\* scratch directory are as they were.
C2_ExistingReleaseIsNoOp ==
  [][(pc = "check" /\ cur'.checkStatus = 200) =>
       /\ pc' = "loop"
       /\ cur'.result = "true"
       /\ results' = Append(results, TRUE)
       /\ successCount' = successCount + 1
       /\ Ops(cur') = {"getReleaseByTag"}
       /\ cur'.created = {}
       /\ UNCHANGED <<releases, files, dirs>>]_vars

\* an item was found cached while scratch files of an earlier item exist
C2_Witness ==
  /\ cur.checkStatus = 200
  /\ cur.result = "true"
  /\ pc = "loop"
  /\ files # {}

\* C3: a run with deploy = false never calls createRelease or
\* uploadReleaseAsset on the backend, and leaves its releases and assets
\* unchanged.
C3_DryRunNoBackendWrite ==
  [][~deploy' =>
       /\ releases' = releases
       /\ Ops(cur') \cap {"createRelease", "uploadReleaseAsset"} = {}]_vars

\* a dry run took a binary item through create and all three uploads
C3_Witness ==
  /\ ~deploy
  /\ cur.create = "dry"
  /\ cur.result = "true"
  /\ Len(downloadedFiles) = 3
  /\ "uploadAsset" \in Ops(cur)

\* C4: an existence check that fails with a status other than 404 is not
\* taken for Absent: no createRelease, no download and no upload happens for
\* the item.
C4_ErrorIsNotAbsent ==
  cur.checkStatus \in ErrorStatuses =>
    /\ Ops(cur) = {"getReleaseByTag"}
    /\ cur.create = "none"
    /\ cur.created = {}
    /\ pc \notin {"create", "download", "get", "upload", "cleanup"}

\* the existence check of an item failed with a status of ErrorStatuses
C4_Witness == cur.checkStatus \in ErrorStatuses /\ cur.result = "threw"

\* C5: when the existence check of an item throws a non-404 error, the item's
\* result is failure and the batch goes on to the next item and to the
\* summary.
C5_CheckErrorFailsItemOnly ==
  cur.checkStatus \in ErrorStatuses =>
    /\ cur.result = "false"
    /\ pc = "exited" => summary

\* C6: in deploy mode a failed createRelease makes the item's result false
\* and the batch goes on to the remaining items and to the summary.
C6_CreateErrorFailsItemOnly ==
  cur.create = "failed" =>
    /\ cur.result = "false"
    /\ pc = "exited" => summary

\* C7: after a download or an upload failed for an item, cleanup has run, the
\* item's result is false, and the batch still processes every remaining
\* item: no item's failure ends the batch early.
C7_TransferFailureKeepsBatch ==
  /\ (transferFailed /\ pc = "exited") =>
       (summary /\ Len(results) = Len(packagesToProcess))
  /\ (Returned /\ dlError # "") =>
       (cur.result = "false" /\ "cleanup" \in Ops(cur))

\* C8: once an item has been processed, with success or failure, no file
\* created in the scratch directory during its processing remains (every
\* deletion the code attempted having succeeded).
C8_NoScratchFileOutlivesItem ==
  (Returned /\ ~cur.fsFailed) => cur.created \cap files = {}

\* C9: in deploy mode an item reported as success has a release under its tag
\* holding one asset for every platform target of its descriptor.
C9_SuccessMeansAllAssets ==
  (deploy /\ cur.result = "true") =>
    /\ cur.tag \in DOMAIN releases
    /\ AllFilenames(DoneItem) \subseteq releases[cur.tag]

\* C10: a download answered only by redirects with a Location header fails
\* with the redirect-limit error after at most 6 redirect responses, and no
\* 7th request is issued.
C10_RedirectBound ==
  /\ requests <= 6
  /\ redirectCount <= 6
  /\ (requests > 0 /\ redirectCount = requests) =>
       (dlError = "Too many redirects" /\ pc # "get")

\* a download was answered by redirects only and was given up
C10_Witness ==
  /\ requests > 0
  /\ redirectCount = requests
  /\ dlError = "Too many redirects"
  /\ cur.result = "false"

\* C11: sanitizeTagName is idempotent: applied to its own result it returns
\* that result.
C11_SanitizeIdempotent == sanStage = "twice" => sanTwice = sanOnce

\* C12: the result of sanitizeTagName has only characters of [A-Za-z0-9._-],
\* is at most 100 long, and neither starts nor ends with "." or "-".
C12_SanitizeValid ==
  sanStage # "input" =>
    /\ \A i \in 1..Len(sanOnce) : sanOnce[i] \in TagChar
    /\ Len(sanOnce) <= 100
    /\ Len(sanOnce) > 0 => (sanOnce[1] \notin {".", "-"} /\ sanOnce[Len(sanOnce)] \notin {".", "-"})

\* the work item cur describes
CurItem == IF Returned THEN packagesToProcess[idx - 1] ELSE packagesToProcess[idx]

\* C13: in a dry run no artifact is transferred: no download is started, no
\* request is sent to the upstream source and no scratch file is written.
C13_DryRunNoTransfer ==
  ~deploy =>
    /\ "download" \notin Ops(cur)
    /\ requests = 0
    /\ cur.created = {}

\* C14: with --package=<name> the batch consists of exactly the work items
\* whose name is <name>; when no dependency has that name nothing is
\* processed, nothing is asked of the backend and the run ends without error.
C14_FilterExact ==
  (specificPackage # <<>> /\ fetch = "ok") =>
    LET match == {i \in 1..Len(allPackages) : allPackages[i].name = specificPackage}
    IN /\ Len(packagesToProcess) = Cardinality(match)
       /\ \A i \in 1..Len(packagesToProcess) : packagesToProcess[i].name = specificPackage
       /\ (pc = "exited" /\ summary) => Len(results) = Cardinality(match)
       /\ match = {} => (pc = "exited" /\ exitCode = 0 /\ cur = NoItem /\ results = <<>>)

\* a filtered run went through its one matching item of a two-item manifest
C14_Witness ==
  /\ specificPackage = Cypress
  /\ Len(allPackages) = 2
  /\ summary
  /\ Len(results) = 1
  /\ DoneItem.name = Cypress

\* C15: the exit code is 0 whenever the batch loop was completed, whatever
\* the items' results, and non-zero when the credential is missing (then
\* nothing was fetched and no item was touched), when the manifest could not
\* be fetched or parsed, and when an error escaped to the top level.
C15_ExitCodes ==
  pc = "exited" =>
    /\ summary => exitCode = 0
    /\ ~token => (exitCode # 0 /\ fetch = "none" /\ cur = NoItem)
    /\ (token /\ fetch # "ok") => exitCode # 0
    /\ cur.result = "threw" => exitCode # 0

\* a batch in which every item failed was completed with exit code 0
C15_Witness ==
  /\ pc = "exited"
  /\ summary
  /\ Len(results) = 2
  /\ successCount = 0
  /\ exitCode = 0

\* C16: the downloader follows up to 5 redirects: the too-many-redirects
\* failure happens only when more than 5 redirects were received.
C16_FiveHopsFollowed == dlError = "Too many redirects" => redirectCount > 5

\* C17: when downloadFile fails, the destination file it created is gone
\* when the error reaches cachePackage (the unlink the code attempted having
\* succeeded).
C17_FailedDownloadDeletesFile ==
  (pc = "cleanup" /\ dlError # "" /\ ~cur.fsFailed) => Filename \notin files

\* the events of one platform target, in the order of the code
TargetEvents(i, d) ==
  <<Event("download", i), Event("downloaded", i), Event("uploadAsset", i)>>
    \o (IF d THEN <<Event("uploadReleaseAsset", i)>> ELSE <<>>)

RECURSIVE TransferEvents(_, _)
TransferEvents(n, d) ==
  IF n = 0 THEN <<>> ELSE TransferEvents(n - 1, d) \o TargetEvents(n, d)

\* the events of a work item that goes through all its targets
ItemEvents(item, d) ==
  <<Event("getReleaseByTag", 0),
    IF d THEN Event("createRelease", 0) ELSE Event("dryRunRelease", 0)>>
    \o TransferEvents(Len(item.config.platforms), d)

IsPrefix(a, b) == Len(a) <= Len(b) /\ a = SubSeq(b, 1, Len(a))

BeforeCleanup(events) ==
  IF Len(events) > 0 /\ events[Len(events)].op = "cleanup"
  THEN SubSeq(events, 1, Len(events) - 1)
  ELSE events

\* C18: within one work item the existence check comes before createRelease,
\* createRelease before every download, the targets are handled one at a
\* time in descriptor order, and a target is uploaded only after its own
\* download completed.
C18_ItemOrder ==
  cur.result # "none" => IsPrefix(BeforeCleanup(cur.events), ItemEvents(CurItem, deploy))

\* a binary item went through all its targets in deploy mode
C18_Witness ==
  /\ deploy
  /\ cur.result = "true"
  /\ Len(CurItem.config.platforms) = 3
  /\ BeforeCleanup(cur.events) = ItemEvents(CurItem, deploy)

\* C19: after the first target of an item whose download or upload failed,
\* nothing is downloaded or uploaded any more for the item, no later target
\* is touched, and the item's result is failure.
C19_FailFast ==
  cur.failedAt > 0 =>
    /\ pc \in {"cleanup", "loop", "exited"}
    /\ \A i \in 1..Len(cur.events) :
         /\ cur.events[i].target <= cur.failedAt
         /\ i > cur.eventsAtFailure => cur.events[i].op = "cleanup"
    /\ Returned => cur.result = "false"

\* the first of three targets failed and the item was given up
C19_Witness ==
  /\ cur.failedAt = 1
  /\ cur.result = "false"
  /\ Len(CurItem.config.platforms) = 3

\* C20: failures of cleanup change nothing else: the item's result is the
\* one the try block produced, every tracked scratch file whose deletion did
\* not fail is deleted, and the batch goes on.
C20_CleanupNeverEscalates ==
  [][pc = "cleanup" =>
       /\ pc' = "loop"
       /\ cur'.result = (IF success THEN "true" ELSE "false")
       /\ results' = Append(results, success)
       /\ files' = files \ (Range(downloadedFiles) \ cur'.failedUnlinks)
       /\ exitCode' = exitCode]_vars

\* a deletion failed, another tracked file was deleted, the item succeeded
\* and the scratch directory stayed
C20_Witness ==
  /\ cur.failedUnlinks # {}
  /\ cur.result = "true"
  /\ Range(downloadedFiles) \ files # {}
  /\ dirs # {}

\* names declared in either group of the resolver's manifest
DeclaredNames ==
  {resManifest.dependencies[i].name : i \in 1..Len(resManifest.dependencies)}
    \cup {resManifest.devDependencies[i].name : i \in 1..Len(resManifest.devDependencies)}

\* C21: the resolver returns one work item per distinct name of the two
\* groups; a name declared in both gets the version of devDependencies; a
\* name of the binary table is binary with the table's descriptor, every
\* other name is an npm package with one synthetic platform target.
C21_ResolverItems ==
  resStage = "done" =>
    /\ Len(resPackages) = Cardinality(DeclaredNames)
    /\ {resPackages[i].name : i \in 1..Len(resPackages)} = DeclaredNames
    /\ \A i \in 1..Len(resPackages) :
         LET item == resPackages[i]
         IN /\ item.version =
                 StripVersionPrefix(IF HasName(resManifest.devDependencies, item.name)
                                    THEN VersionOf(resManifest.devDependencies, item.name)
                                    ELSE VersionOf(resManifest.dependencies, item.name))
            /\ IF IsTableKey(item.name)
               THEN /\ item.type = "binary"
                    /\ item.config.name = BinaryTable[BinaryEntry(item.name)].name
                    /\ item.config.platforms = BinaryPlatforms
               ELSE /\ item.type = "npm"
                    /\ Len(item.config.platforms) = 1
====
